---- MODULE Spec2Model ----
(***************************************************************************)
(* The countdown sketch (src/sketch.js) and its font-cycling variant       *)
(* (src/unnamed/part_000) as one state machine.  The two files share       *)
(* updateCountdown, setup and draw; they differ in getTargetDate and in    *)
(* the font rotation, which only the variant has.  `variant` says which    *)
(* file a behaviour runs.                                                  *)
(*                                                                         *)
(* Instants and durations are JavaScript numbers of milliseconds.  A year  *)
(* of milliseconds does not fit the model checker's integers, so a         *)
(* millisecond quantity x is held as the pair (day, ms) with               *)
(*     x = day * MsPerDay + ms   and   0 <= ms < MsPerDay.                 *)
(* Every divisor the program uses divides MsPerDay, so the program's       *)
(* divisions and remainders are exact on the pair.  Local time is taken    *)
(* in a zone without daylight-saving shifts: consecutive local midnights   *)
(* are MsPerDay apart.                                                     *)
(***************************************************************************)
EXTENDS Integers, Sequences, FiniteSets, TLC

VARIABLES
  variant,            \* which source file runs: "sketch" or "part_000"
  pc,                 \* "boot" before setup() has run, "run" after
  canvas,             \* size of the drawing surface
  wall,               \* Date.now(), as (day, ms)
  millis,             \* p5's millis(): milliseconds since the sketch started
  targetDate,
  days, hours, minutes, seconds,
  prevDays, prevHours, prevMinutes, prevSeconds,
  animatingElements,
  lastUpdateTime,
  timers,             \* pending setTimeout callbacks: [field, due]
  fonts, currentFontIndex, previousFontIndex, currentFont,
  isComplete,         \* draw's completion condition, as last evaluated
  rendered,           \* the digit text draw last drew for each field
  padArg, padResult,  \* pad on its own: its argument and what it returned
  \* history variables, read by the properties only
  lastOp,             \* the handler that ran last
  calls,              \* executions of updateCountdown so far, counted up to 3
  lastSampleMs,       \* millis() at the latest execution of updateCountdown
  completed,          \* some execution of updateCountdown returned true
  startNow,           \* Date.now() as setup() read it
  minTotal,           \* least total of remaining seconds sampled before the target
  fontBefore,         \* currentFont as it was when getNextFont was last called
  setupMs,            \* millis() when setup() executed updateCountdown
  returned,           \* what the latest execution of updateCountdown returned
  recentFonts         \* the indices getNextFont selected last, at most Len(fonts)

vars == <<variant, pc, canvas, wall, millis, targetDate,
          days, hours, minutes, seconds,
          prevDays, prevHours, prevMinutes, prevSeconds,
          animatingElements, lastUpdateTime, timers,
          fonts, currentFontIndex, previousFontIndex, currentFont,
          isComplete, lastOp, calls, lastSampleMs, completed, startNow, minTotal,
          fontBefore, rendered, padArg, padResult, setupMs, returned,
          recentFonts>>

padVars == <<padArg, padResult>>

fontVars == <<fonts, currentFontIndex, previousFontIndex, currentFont>>

----------------------------------------------------------------------------
(* Program constants *)

MsPerSecond == 1000
MsPerMinute == 1000 * 60
MsPerHour == 1000 * 60 * 60
MsPerDay == 1000 * 60 * 60 * 24

updateInterval == 250
PulseDelay == 200

Fields == {"days", "hours", "minutes", "seconds"}

Fonts14 == << "Roboto Mono", "Space Mono", "JetBrains Mono", "Fira Code",
              "Source Code Pro", "IBM Plex Mono", "PT Mono", "Share Tech Mono",
              "VT323", "Orbitron", "Rajdhani", "Quantico", "Courier New",
              "monospace" >>

NoDate == [day |-> -1, ms |-> 0]
NoFont == "undefined"
NoCanvas == <<0, 0>>

----------------------------------------------------------------------------
(* Bounds of the model *)

\* The run is followed for MaxQuanta steps of 50 ms of millis().
MaxQuanta == 32
Horizon == MaxQuanta * 50

\* A due timer callback runs at most MaxLateQuanta steps of 50 ms late.
MaxLateQuanta == 2
MaxLate == MaxLateQuanta * 50

\* millis() advances by one of these between two handlers.
Steps == {50, 250}

\* millis() when setup() calls updateCountdown.
SetupMillis == {0, 100}

WindowSizes == {<<800, 600>>, <<1280, 720>>}

\* pad on its own is applied to every number from 0 to MaxPadValue.
MaxPadValue == 400

Years == 2027 .. 2029
EpochYear == CHOOSE y \in Years : \A z \in Years : y <= z

----------------------------------------------------------------------------
(* Millisecond quantities as (day, ms) *)

Norm(d, m) == [day |-> d + (m \div MsPerDay), ms |-> m % MsPerDay]

\* a - b
Minus(a, b) == Norm(a.day - b.day, a.ms - b.ms)

\* t + delta
Plus(t, delta) == Norm(t.day, t.ms + delta)

Less(a, b) == a.day < b.day \/ (a.day = b.day /\ a.ms < b.ms)
Leq(a, b) == a = b \/ Less(a, b)

\* x <= 0
NonPositive(x) == x.day < 0 \/ (x.day = 0 /\ x.ms = 0)

\* Math.floor(x / MsPerDay), x > 0
FloorDivDay(x) == x.day

\* x % k for x > 0 and k a divisor of MsPerDay
Mod(x, k) == x.ms % k

\* Math.floor(x / 1000) in seconds, x > 0
FloorSeconds(x) == x.day * (MsPerDay \div MsPerSecond) + (x.ms \div MsPerSecond)

----------------------------------------------------------------------------
(* The local calendar: new Date(year, month, date, 0, 0, 0, 0) *)

IsLeap(y) == (y % 4 = 0 /\ y % 100 # 0) \/ y % 400 = 0
DaysInYear(y) == IF IsLeap(y) THEN 366 ELSE 365

RECURSIVE YearStart(_)
YearStart(y) == IF y <= EpochYear THEN 0 ELSE YearStart(y - 1) + DaysInYear(y - 1)

MonthLengths(y) == << 31, IF IsLeap(y) THEN 29 ELSE 28, 31, 30, 31, 30,
                      31, 31, 30, 31, 30, 31 >>

RECURSIVE DaysBeforeMonth(_, _)
DaysBeforeMonth(y, m) ==
  IF m = 0 THEN 0 ELSE DaysBeforeMonth(y, m - 1) + MonthLengths(y)[m]

\* Local midnight of day `date` (1-based, may run past the month's end) of
\* month `month` (0-based) of year y.
LocalMidnight(y, month, date) ==
  [day |-> YearStart(y) + DaysBeforeMonth(y, month) + (date - 1), ms |-> 0]

getFullYear(t) ==
  CHOOSE y \in Years : YearStart(y) <= t.day /\ t.day < YearStart(y) + DaysInYear(y)

April11(y) == LocalMidnight(y, 3, 11)

----------------------------------------------------------------------------
(* getTargetDate *)

\* Mutant: the roll-over test written now >= april11ThisYear.
getTargetDateSketchGeq(now) ==
  LET currentYear == getFullYear(now)
      april11ThisYear == April11(currentYear)
  IN IF Leq(april11ThisYear, now) THEN April11(currentYear + 1)
     ELSE april11ThisYear

\* src/sketch.js: April 11 of this year, or of next year once it has passed.
getTargetDateSketch(now) ==
  LET currentYear == getFullYear(now)
      april11ThisYear == April11(currentYear)
  IN IF Less(april11ThisYear, now) THEN April11(currentYear + 1)
     ELSE april11ThisYear

\* src/unnamed/part_000: January 1 of this year, setDate(1 + 100).
getTargetDatePart000(now) == LocalMidnight(getFullYear(now), 0, 1 + 100)

getTargetDate(now) ==
  IF variant = "sketch" THEN getTargetDateSketch(now) ELSE getTargetDatePart000(now)

----------------------------------------------------------------------------
(* getNextFont (part_000) *)

\* Mutant: the skip step taken on every call.
NextFontIndexSkipAlways(cur, prev, n) == (((cur + 1) % n) + 1) % n

\* The index getNextFont leaves in currentFontIndex and previousFontIndex,
\* for a list of n fonts (0-based, as in the source).
NextFontIndex(cur, prev, n) ==
  LET advanced == (cur + 1) % n
  IN IF advanced = prev /\ n > 1 THEN (advanced + 1) % n ELSE advanced

\* fonts[i] of the source
FontAt(list, i) == list[i + 1]

\* the last n elements of sequence q
LastOf(q, n) == IF Len(q) <= n THEN q ELSE SubSeq(q, Len(q) - n + 1, Len(q))

\* Mutant: the selection is not recorded in previousFontIndex.
getNextFontUnrecorded(font) ==
  LET next == NextFontIndex(currentFontIndex, previousFontIndex, Len(fonts))
  IN /\ currentFontIndex' = next
     /\ previousFontIndex' = previousFontIndex
     /\ currentFont' = FontAt(fonts, next)
     /\ fontBefore' = font
     /\ recentFonts' = LastOf(Append(recentFonts, next), Len(fonts))

\* currentFont = getNextFont(), called with currentFont = font
getNextFont(font) ==
  LET next == NextFontIndex(currentFontIndex, previousFontIndex, Len(fonts))
  IN /\ currentFontIndex' = next
     /\ previousFontIndex' = next
     /\ currentFont' = FontAt(fonts, next)
     /\ fontBefore' = font
     /\ recentFonts' = LastOf(Append(recentFonts, next), Len(fonts))

----------------------------------------------------------------------------
(* updateCountdown *)

\* Mutant: difference < 0, so that the target instant itself is not the end.
HasEndedStrict(difference) == difference.day < 0

\* difference <= 0
HasEnded(difference) == NonPositive(difference)

\* Mutant: the early return taken without zeroing the fields.
EndedFieldsKept ==
  [days |-> days, hours |-> hours, minutes |-> minutes, seconds |-> seconds]

\* the values assigned when the countdown has ended
EndedFields == [days |-> 0, hours |-> 0, minutes |-> 0, seconds |-> 0]

DaysOf(difference) == FloorDivDay(difference)
HoursOf(difference) == Mod(difference, MsPerDay) \div MsPerHour

\* Mutant: the remainder taken modulo a minute instead of an hour.
MinutesOfModMinute(difference) == Mod(difference, MsPerMinute) \div MsPerMinute

MinutesOf(difference) == Mod(difference, MsPerHour) \div MsPerMinute

\* Mutant: Math.round in place of Math.floor.
SecondsOfRounded(difference) ==
  (Mod(difference, MsPerMinute) + 500) \div MsPerSecond

SecondsOf(difference) == Mod(difference, MsPerMinute) \div MsPerSecond

TotalSeconds(d, h, m, s) == d * 86400 + h * 3600 + m * 60 + s

Min(a, b) == IF a <= b THEN a ELSE b

\* One execution of updateCountdown against `target`, at Date.now() = wall;
\* `font` is currentFont as the caller left it.
updateCountdown(target, font) ==
  LET difference == Minus(target, wall) IN
  /\ calls' = Min(calls + 1, 3)
  /\ lastSampleMs' = millis
  /\ IF HasEnded(difference)
     THEN /\ days' = EndedFields.days
          /\ hours' = EndedFields.hours
          /\ minutes' = EndedFields.minutes
          /\ seconds' = EndedFields.seconds
          /\ currentFont' = font
          /\ completed' = TRUE
          /\ returned' = TRUE
          /\ UNCHANGED <<prevDays, prevHours, prevMinutes, prevSeconds,
                         animatingElements, timers,
                         currentFontIndex, previousFontIndex, minTotal, fontBefore,
                         recentFonts>>
     ELSE LET d == DaysOf(difference)
              h == HoursOf(difference)
              m == MinutesOf(difference)
              s == SecondsOf(difference)
              changed == {f \in Fields :
                            \/ f = "days" /\ prevDays # d
                            \/ f = "hours" /\ prevHours # h
                            \/ f = "minutes" /\ prevMinutes # m
                            \/ f = "seconds" /\ prevSeconds # s}
              hasChanged == changed # {}
              total == TotalSeconds(d, h, m, s)
          IN /\ days' = d /\ hours' = h /\ minutes' = m /\ seconds' = s
             /\ animatingElements' =
                  [f \in Fields |-> IF f \in changed THEN TRUE ELSE animatingElements[f]]
             /\ timers' = timers \cup
                  {[field |-> f, due |-> millis + PulseDelay] : f \in changed}
             /\ IF variant = "part_000" /\ hasChanged
                THEN getNextFont(font)
                ELSE /\ currentFont' = font
                     /\ UNCHANGED <<currentFontIndex, previousFontIndex, fontBefore,
                                    recentFonts>>
             /\ prevDays' = d /\ prevHours' = h /\ prevMinutes' = m /\ prevSeconds' = s
             /\ completed' = completed
             /\ returned' = FALSE
             /\ minTotal' = IF minTotal = -1 THEN total ELSE Min(minTotal, total)

----------------------------------------------------------------------------
(* setup, draw, the timer callbacks, windowResized *)

Setup ==
  /\ pc = "boot"
  /\ pc' = "run"
  /\ \E size \in WindowSizes : canvas' = size
  /\ targetDate' = getTargetDate(wall)
  /\ updateCountdown(getTargetDate(wall),
                     IF variant = "part_000" THEN FontAt(fonts, 0) ELSE currentFont)
  /\ startNow' = wall
  /\ lastOp' = "setup"
  /\ setupMs' = millis
  /\ UNCHANGED <<variant, wall, millis, lastUpdateTime, fonts, isComplete,
                 rendered, padVars>>

\* String(num) for an integer num >= 0: its decimal digits, as characters
DigitChar(d) == << "0", "1", "2", "3", "4", "5", "6", "7", "8", "9" >>[d + 1]

RECURSIVE String(_)
String(num) ==
  IF num < 10 THEN << DigitChar(num) >>
  ELSE Append(String(num \div 10), DigitChar(num % 10))

\* str.padStart(targetLength, ch)
RECURSIVE padStart(_, _, _)
padStart(str, targetLength, ch) ==
  IF Len(str) >= targetLength THEN str
  ELSE padStart(<< ch >> \o str, targetLength, ch)

\* Mutant: ('0' + num).slice(-digits), which keeps the last `digits` characters.
padSlice(num, digits) == LastOf(<< "0" >> \o String(num), digits)

\* pad(num, digits = 2)
pad(num, digits) == padStart(String(num), digits, "0")

\* what drawTimeUnit draws for the four values: text(pad(value), ...)
Rendered(d, h, m, s) ==
  [days |-> pad(d, 2), hours |-> pad(h, 2), minutes |-> pad(m, 2), seconds |-> pad(s, 2)]

\* nothing drawn yet
NotRendered == [f \in Fields |-> << >>]

\* Mutant: the throttle compared against the pulse delay.
ShouldUpdatePulse(now, last) == now - last >= PulseDelay

\* draw's throttle: now - lastUpdateTime >= updateInterval
ShouldUpdate(now, last) == now - last >= updateInterval

\* Mutant: the completion condition without its clock test.
CompletionConditionFieldsOnly(d, h, m, s, target, now) ==
  d = 0 /\ h = 0 /\ m = 0 /\ s = 0

\* draw's isComplete
CompletionCondition(d, h, m, s, target, now) ==
  d = 0 /\ h = 0 /\ m = 0 /\ s = 0 /\ Leq(target, now)

\* Mutant: a frame that samples whatever the watermark says.
DrawFrameUnthrottled ==
  /\ pc = "run"
  /\ millis <= Horizon
  /\ updateCountdown(targetDate, currentFont)
  /\ lastUpdateTime' = millis
  /\ lastOp' = "drawSample"
  /\ isComplete' = CompletionCondition(days', hours', minutes', seconds', targetDate, wall)
  /\ rendered' = Rendered(days', hours', minutes', seconds')
  /\ UNCHANGED <<variant, pc, canvas, wall, millis, fonts, startNow, setupMs, padVars>>

\* what one frame does to everything but targetDate; the host draws frames
\* up to the horizon
DrawFrame ==
  /\ pc = "run"
  /\ millis <= Horizon
  /\ IF ShouldUpdate(millis, lastUpdateTime)
     THEN /\ updateCountdown(targetDate, currentFont)
          /\ lastUpdateTime' = millis
          /\ lastOp' = "drawSample"
     ELSE /\ lastOp' = "drawThrottled"
          /\ UNCHANGED <<days, hours, minutes, seconds,
                         prevDays, prevHours, prevMinutes, prevSeconds,
                         animatingElements, timers, lastUpdateTime,
                         currentFontIndex, previousFontIndex, currentFont,
                         calls, lastSampleMs, completed, minTotal, fontBefore,
                         returned, recentFonts>>
  /\ isComplete' = CompletionCondition(days', hours', minutes', seconds', targetDate, wall)
  /\ rendered' = Rendered(days', hours', minutes', seconds')
  /\ UNCHANGED <<variant, pc, canvas, wall, millis, fonts, startNow, setupMs, padVars>>

\* Mutant: the target resolved again on every frame.
DrawResolving == DrawFrame /\ targetDate' = getTargetDate(wall)

Draw == DrawFrame /\ UNCHANGED targetDate

\* Mutant: a callback that leaves the flag as it is.
TimerFireKeep(t) ==
  /\ t \in timers
  /\ t.due <= millis
  /\ timers' = timers \ {t}
  /\ lastOp' = "timer"
  /\ UNCHANGED <<variant, pc, canvas, wall, millis, targetDate,
                 days, hours, minutes, seconds,
                 prevDays, prevHours, prevMinutes, prevSeconds,
                 animatingElements, lastUpdateTime, fontVars, isComplete,
                 calls, lastSampleMs, completed, startNow, minTotal, fontBefore,
                 rendered, padVars, setupMs, returned, recentFonts>>

\* () => { animatingElements.<field> = false; }
TimerFire(t) ==
  /\ t \in timers
  /\ t.due <= millis
  /\ timers' = timers \ {t}
  /\ animatingElements' = [animatingElements EXCEPT ![t.field] = FALSE]
  /\ lastOp' = "timer"
  /\ UNCHANGED <<variant, pc, canvas, wall, millis, targetDate,
                 days, hours, minutes, seconds,
                 prevDays, prevHours, prevMinutes, prevSeconds,
                 lastUpdateTime, fontVars, isComplete,
                 calls, lastSampleMs, completed, startNow, minTotal, fontBefore,
                 rendered, padVars, setupMs, returned, recentFonts>>

windowResized ==
  /\ pc = "run"
  /\ \E size \in WindowSizes : canvas' = size
  /\ lastOp' = "resize"
  /\ UNCHANGED <<variant, pc, wall, millis, targetDate,
                 days, hours, minutes, seconds,
                 prevDays, prevHours, prevMinutes, prevSeconds,
                 animatingElements, lastUpdateTime, timers, fontVars, isComplete,
                 calls, lastSampleMs, completed, startNow, minTotal, fontBefore,
                 rendered, padVars, setupMs, returned, recentFonts>>

\* Time passes between two handlers: millis() and Date.now() advance together.
\* Past the horizon time goes on only until every pending timer is due.
Tick(delta) ==
  /\ pc = "run"
  /\ millis + delta <= Horizon \/ \E t \in timers : millis < t.due
  /\ \A t \in timers : millis + delta <= t.due + MaxLate
  /\ millis' = millis + delta
  /\ wall' = Plus(wall, delta)
  /\ lastOp' = "tick"
  /\ UNCHANGED <<variant, pc, canvas, targetDate,
                 days, hours, minutes, seconds,
                 prevDays, prevHours, prevMinutes, prevSeconds,
                 animatingElements, lastUpdateTime, timers, fontVars, isComplete,
                 calls, lastSampleMs, completed, startNow, minTotal, fontBefore,
                 rendered, padVars, setupMs, returned, recentFonts>>

----------------------------------------------------------------------------
(* The run *)

\* Date.now() at startup, as milliseconds before April 11 of the first year.
StartOffsets == {MsPerDay + 300, MsPerHour + 300, MsPerMinute + 300,
                 1300, 1001, 0, -500}
StartInstants == {Plus(April11(EpochYear), 0 - o) : o \in StartOffsets}

Init ==
  /\ variant \in {"sketch", "part_000"}
  /\ pc = "boot"
  /\ canvas = NoCanvas
  /\ wall \in StartInstants
  /\ millis \in SetupMillis
  /\ targetDate = NoDate
  /\ days = 0 /\ hours = 0 /\ minutes = 0 /\ seconds = 0
  /\ prevDays = -1 /\ prevHours = -1 /\ prevMinutes = -1 /\ prevSeconds = -1
  /\ animatingElements = [f \in Fields |-> FALSE]
  /\ lastUpdateTime = 0
  /\ timers = {}
  /\ fonts = Fonts14
  /\ currentFontIndex = 0
  /\ previousFontIndex = -1
  /\ currentFont = NoFont
  /\ isComplete = FALSE
  /\ lastOp = "init"
  /\ calls = 0
  /\ lastSampleMs = -1
  /\ completed = FALSE
  /\ startNow = NoDate
  /\ minTotal = -1
  /\ fontBefore = NoFont
  /\ rendered = NotRendered
  /\ padArg = 0 /\ padResult = << >>
  /\ setupMs = -1
  /\ returned = "none"
  /\ recentFonts = << >>

Next ==
  \/ Setup
  \/ Draw
  \/ \E t \in timers : TimerFire(t)
  \/ windowResized
  \/ \E delta \in Steps : Tick(delta)

Spec == Init /\ [][Next]_vars

\* The startups followed to their end: one that crosses a minute boundary
\* and one that reaches the target.
LiveStartOffsets == {MsPerMinute + 300, 1001}
InitLive ==
  /\ Init
  /\ wall \in {Plus(April11(EpochYear), 0 - o) : o \in LiveStartOffsets}

\* The host keeps running: time passes, and the deferred-callback scheduler
\* runs every callback that is due.
SpecLive ==
  /\ InitLive /\ [][Next]_vars
  /\ WF_vars(\E t \in timers : TimerFire(t))
  /\ WF_vars(\E delta \in Steps : Tick(delta))

----------------------------------------------------------------------------
(* The run under a wall clock that is set while the sketch runs: Date.now() *)
(* moves to another instant, before or after the current one, and millis()  *)
(* goes on as before.                                                       *)

SkewStartOffsets == {MsPerDay + 300}
JumpOffsets == {MsPerDay + MsPerMinute + 1500, 1200, -700}
JumpInstants == {Plus(April11(EpochYear), 0 - o) : o \in JumpOffsets}

InitSkew ==
  /\ Init
  /\ wall \in {Plus(April11(EpochYear), 0 - o) : o \in SkewStartOffsets}
  /\ millis = 0

\* The clock is set right after a sample (when between two samples it is
\* set makes no difference to what the next one reads), and only after one
\* of the first executions of updateCountdown.
JumpAfterCalls == {1, 2}

ClockJump ==
  /\ pc = "run"
  /\ lastOp \in {"setup", "drawSample"}
  /\ calls \in JumpAfterCalls
  /\ \E instant \in JumpInstants : wall' = instant
  /\ lastOp' = "jump"
  /\ UNCHANGED <<variant, pc, canvas, millis, targetDate,
                 days, hours, minutes, seconds,
                 prevDays, prevHours, prevMinutes, prevSeconds,
                 animatingElements, lastUpdateTime, timers, fontVars, isComplete,
                 calls, lastSampleMs, completed, startNow, minTotal, fontBefore,
                 rendered, padVars, setupMs, returned, recentFonts>>

NextSkew ==
  \/ Next
  \/ ClockJump

SpecSkew == InitSkew /\ [][NextSkew]_vars

----------------------------------------------------------------------------
(* getNextFont on its own: every sequence of calls, for every list length  *)
(* from 2 to the 14 of the source, from the state the module-level         *)
(* initialisers and setup's currentFont = fonts[0] leave.                  *)

FontLists == {SubSeq(Fonts14, 1, n) : n \in 2 .. Len(Fonts14)}

InitFont ==
  /\ variant = "part_000"
  /\ pc = "fonts"
  /\ canvas = NoCanvas
  /\ wall = April11(EpochYear)
  /\ millis = 0
  /\ targetDate = NoDate
  /\ days = 0 /\ hours = 0 /\ minutes = 0 /\ seconds = 0
  /\ prevDays = -1 /\ prevHours = -1 /\ prevMinutes = -1 /\ prevSeconds = -1
  /\ animatingElements = [f \in Fields |-> FALSE]
  /\ lastUpdateTime = 0
  /\ timers = {}
  /\ fonts \in FontLists
  /\ currentFontIndex = 0
  /\ previousFontIndex = -1
  /\ currentFont = FontAt(fonts, 0)
  /\ isComplete = FALSE
  /\ lastOp = "init"
  /\ calls = 0
  /\ lastSampleMs = -1
  /\ completed = FALSE
  /\ startNow = NoDate
  /\ minTotal = -1
  /\ fontBefore = NoFont
  /\ rendered = NotRendered
  /\ padArg = 0 /\ padResult = << >>
  /\ setupMs = -1
  /\ returned = "none"
  /\ recentFonts = << >>

GetNextFontCall ==
  /\ pc = "fonts"
  /\ getNextFont(currentFont)
  /\ lastOp' = "getNextFont"
  /\ UNCHANGED <<variant, pc, canvas, wall, millis, targetDate,
                 days, hours, minutes, seconds,
                 prevDays, prevHours, prevMinutes, prevSeconds,
                 animatingElements, lastUpdateTime, timers, fonts, isComplete,
                 calls, lastSampleMs, completed, startNow, minTotal,
                 rendered, padVars, setupMs, returned>>

NextFont == GetNextFontCall

SpecFont == InitFont /\ [][NextFont]_vars

----------------------------------------------------------------------------
(* pad on its own: applied to every number from 0 to MaxPadValue *)

InitPad ==
  /\ variant = "sketch"
  /\ pc = "pad"
  /\ canvas = NoCanvas
  /\ wall = April11(EpochYear)
  /\ millis = 0
  /\ targetDate = NoDate
  /\ days = 0 /\ hours = 0 /\ minutes = 0 /\ seconds = 0
  /\ prevDays = -1 /\ prevHours = -1 /\ prevMinutes = -1 /\ prevSeconds = -1
  /\ animatingElements = [f \in Fields |-> FALSE]
  /\ lastUpdateTime = 0
  /\ timers = {}
  /\ fonts = Fonts14
  /\ currentFontIndex = 0
  /\ previousFontIndex = -1
  /\ currentFont = NoFont
  /\ isComplete = FALSE
  /\ lastOp = "init"
  /\ calls = 0
  /\ lastSampleMs = -1
  /\ completed = FALSE
  /\ startNow = NoDate
  /\ minTotal = -1
  /\ fontBefore = NoFont
  /\ rendered = NotRendered
  /\ padArg \in 0 .. MaxPadValue
  /\ padResult = << >>
  /\ setupMs = -1
  /\ returned = "none"
  /\ recentFonts = << >>

PadCall ==
  /\ pc = "pad"
  /\ \E num \in 0 .. MaxPadValue :
       /\ padArg' = num
       /\ padResult' = pad(num, 2)
  /\ lastOp' = "pad"
  /\ UNCHANGED <<variant, pc, canvas, wall, millis, targetDate,
                 days, hours, minutes, seconds,
                 prevDays, prevHours, prevMinutes, prevSeconds,
                 animatingElements, lastUpdateTime, timers, fontVars, isComplete,
                 calls, lastSampleMs, completed, startNow, minTotal, fontBefore,
                 rendered, setupMs, returned, recentFonts>>

NextPad == PadCall

SpecPad == InitPad /\ [][NextPad]_vars

----------------------------------------------------------------------------
(* Properties *)

SampleOps == {"setup", "drawSample"}
DrawOps == {"drawSample", "drawThrottled"}
AllZero == days = 0 /\ hours = 0 /\ minutes = 0 /\ seconds = 0
FieldValue(f) ==
  CASE f = "days" -> days [] f = "hours" -> hours
    [] f = "minutes" -> minutes [] f = "seconds" -> seconds

\* C1: under the non-decreasing clock of Spec, every execution of
\* updateCountdown at Date.now() >= targetDate leaves the four fields 0 (and
\* returns true), and once one execution has returned true the four fields
\* are 0 in every later state.
C1_ZeroIsSticky ==
  /\ (lastOp \in SampleOps /\ Leq(targetDate, wall)) => (completed /\ AllZero)
  /\ completed => AllZero

\* C1 witness: the countdown ended in draw on a call that found seconds = 1
\* left by the call before it.
C1_Witness ==
  completed /\ lastOp = "drawSample" /\ prevSeconds = 1 /\ AllZero

\* C2: right after an execution of updateCountdown at now < targetDate the
\* four fields are non-negative integers and their total S satisfies
\* S <= floor((targetDate - now) / 1000) <= S + 1.
C2_FloorConsistent ==
  (lastOp \in SampleOps /\ Less(wall, targetDate)) =>
    LET S == TotalSeconds(days, hours, minutes, seconds)
        F == FloorSeconds(Minus(targetDate, wall))
    IN /\ days \in Nat /\ hours \in Nat /\ minutes \in Nat /\ seconds \in Nat
       /\ S <= F
       /\ F <= S + 1

\* C2 witness: a sample just below a whole day, every lower field at its top.
C2_Witness ==
  /\ lastOp = "drawSample" /\ Less(wall, targetDate)
  /\ days = 0 /\ hours = 23 /\ minutes = 59 /\ seconds = 59

\* the call of this step set animatingElements.f and scheduled its reset
MarkedNow(f) ==
  /\ animatingElements'[f]
  /\ [field |-> f, due |-> millis' + PulseDelay] \in (timers' \ timers)

\* C3 (as claimed): every execution of updateCountdown after the first marks
\* a field as changed if and only if the value it leaves in the field differs
\* from the value the previous execution left, the execution that reaches
\* zero included.
C3_ChangeDetection ==
  [][lastOp' = "drawSample" =>
       \A f \in Fields : MarkedNow(f) <=> (FieldValue(f)' # FieldValue(f))]_vars

\* C4 (as claimed): between any two consecutive executions of updateCountdown,
\* the one made by setup included, millis() advances by at least 250.
C4_ThrottleAllCalls ==
  [][lastOp' = "drawSample" => millis' - lastSampleMs >= updateInterval]_vars

\* C4 (amended): between two consecutive executions of updateCountdown made by
\* draw, millis() advances by at least 250, and the first execution made by
\* draw happens at millis() >= 250.
C4_ThrottleDraw ==
  [][lastOp' = "drawSample" =>
       IF calls >= 2 THEN millis' - lastSampleMs >= updateInterval
       ELSE millis' >= updateInterval]_vars

\* C4 witness: draw has executed updateCountdown twice.
C4_Witness == calls = 3 /\ lastOp = "drawSample"

\* C5: right after a frame, draw's completion condition is true exactly when
\* Date.now() >= targetDate, throttled frames included, and once true in a
\* frame it is true in every later frame.
C5_CompletionShown ==
  /\ [](lastOp \in DrawOps => (isComplete <=> Leq(targetDate, wall)))
  /\ [][isComplete => isComplete']_vars

\* C5 witness: a throttled frame past the target shows the message although
\* no execution of updateCountdown has yet found the countdown ended.
C5_Witness == lastOp = "drawThrottled" /\ isComplete /\ ~completed

\* C6: for every list of at least two fonts, the font a call of getNextFont
\* returns differs from the font that was current just before the call, which
\* is the font the preceding call returned.
C6_NoRepeat == lastOp = "getNextFont" => currentFont # fontBefore

\* C6 witness: a list of two fonts has wrapped around to its first font.
C6_Witness ==
  lastOp = "getNextFont" /\ Len(fonts) = 2 /\ currentFontIndex = 0

\* C7 (as claimed): the first execution of updateCountdown, made by setup,
\* sets all four animation flags and schedules their resets, wherever now
\* lies relative to targetDate.
C7_FirstCallMarksAll ==
  lastOp = "setup" =>
    \A f \in Fields :
      animatingElements[f] /\ [field |-> f, due |-> millis + PulseDelay] \in timers

\* C8: the total of remaining seconds left by an execution of updateCountdown
\* before the target is no larger than the total left by any earlier one.
C8_Monotone ==
  (lastOp \in SampleOps /\ Less(wall, targetDate)) =>
    TotalSeconds(days, hours, minutes, seconds) = minTotal

\* C8 witness: a third sample, taken after the minute boundary was crossed.
C8_Witness ==
  /\ lastOp = "drawSample" /\ calls = 3 /\ Less(wall, targetDate)
  /\ days = 0 /\ hours = 0 /\ minutes = 0 /\ seconds = 59

\* C9: in src/sketch.js the resolved target is April 11 of the startup year
\* when startup now <= that midnight and April 11 of the following year when
\* startup now is past it; so the target is never earlier than startup now
\* and the first difference is >= 0.
C9_RuleB ==
  (variant = "sketch" /\ pc = "run") =>
    LET A == April11(getFullYear(startNow))
        A2 == April11(getFullYear(startNow) + 1)
    IN /\ Leq(startNow, A) => targetDate = A
       /\ Less(A, startNow) => targetDate = A2
       /\ Leq(startNow, targetDate)
       /\ ~ Less(Minus(targetDate, startNow), [day |-> 0, ms |-> 0])

\* C9 witness: a startup past April 11 resolved to the following year.
C9_Witness ==
  /\ variant = "sketch" /\ pc = "run"
  /\ Less(April11(getFullYear(startNow)), startNow)
  /\ targetDate = April11(getFullYear(startNow) + 1)
  /\ Minus(targetDate, startNow).day >= 365

\* C10: once setup has run, no step changes targetDate; it stays the target
\* setup resolved from the startup instant.
C10_TargetFixed ==
  /\ [][pc = "run" => targetDate' = targetDate]_vars
  /\ [](pc = "run" => targetDate = getTargetDate(startNow))

\* C10 witness: a frame sampled past the target of src/sketch.js, where
\* resolving again would give the following year.
C10_Witness ==
  /\ variant = "sketch" /\ lastOp = "drawSample"
  /\ Less(targetDate, wall)
  /\ getTargetDate(wall) # targetDate

Max(a, b) == IF a >= b THEN a ELSE b

\* the number of decimal digits of n >= 0
NumDigits(n) == CHOOSE k \in 1 .. 10 : n < 10^k /\ (k = 1 \/ n >= 10^(k - 1))

DigitValue(c) == CHOOSE d \in 0 .. 9 : DigitChar(d) = c

\* the number a sequence of digit characters denotes
RECURSIVE ParseDecimal(_)
ParseDecimal(str) ==
  IF str = << >> THEN 0
  ELSE ParseDecimal(SubSeq(str, 1, Len(str) - 1)) * 10 + DigitValue(str[Len(str)])

\* C11: for every n from 0 to MaxPadValue, pad(n) consists of decimal digits,
\* has length max(2, number of digits of n), so is never truncated, starts
\* with "0" exactly when n < 10, and denotes n; 5 gives "05", 42 gives "42",
\* 100 gives "100".
C11_ZeroPadding ==
  lastOp = "pad" =>
    /\ \A i \in 1 .. Len(padResult) : \E d \in 0 .. 9 : padResult[i] = DigitChar(d)
    /\ Len(padResult) = Max(2, NumDigits(padArg))
    /\ ParseDecimal(padResult) = padArg
    /\ (padResult[1] = "0") <=> (padArg < 10)
    /\ padArg = 5 => padResult = << "0", "5" >>
    /\ padArg = 42 => padResult = << "4", "2" >>
    /\ padArg = 100 => padResult = << "1", "0", "0" >>

\* C11 witness: pad(100) returned three characters.
C11_Witness == lastOp = "pad" /\ padArg = 100 /\ Len(padResult) = 3

\* the reset timer that setup's execution of updateCountdown scheduled
FromSetup(t) == t.due = setupMs + PulseDelay

TimersOf(f) == {t \in timers : t.field = f}

\* C12 (as claimed): when an execution of updateCountdown marks a field, no
\* reset timer of that field is pending; a field whose reset is not yet due
\* has its flag true; at most one reset timer per field is pending.
C12_NoOverlap ==
  /\ [][\A f \in Fields : MarkedNow(f) => TimersOf(f) = {}]_vars
  /\ [](\A t \in timers : t.due > millis => animatingElements[t.field])
  /\ [](\A f \in Fields : Cardinality(TimersOf(f)) <= 1)

\* C12 (amended): two reset timers pending for one field, the earlier of them
\* scheduled by draw, are due at least 250 apart, so the 200 of a pulse begun
\* in draw have passed when a later execution marks the field again; and a
\* flag is true only while a reset timer of its field is pending.  Nothing
\* is said of the timer setup scheduled, nor of the number of pending timers.
C12_DrawPulsesApart ==
  /\ \A t1, t2 \in timers :
       (t1.field = t2.field /\ t1.due < t2.due /\ ~ FromSetup(t1)) =>
         t2.due - t1.due >= updateInterval
  /\ \A f \in Fields : animatingElements[f] => TimersOf(f) # {}

\* C12 witness: draw marked a field while the reset timer of the pulse the
\* execution of draw before it began, run late, was still pending.
C12_Witness ==
  /\ lastOp = "drawSample"
  /\ \E t1, t2 \in timers :
       /\ t1.field = t2.field /\ ~ FromSetup(t1)
       /\ t1.due + updateInterval = t2.due
       /\ t2.due = millis + PulseDelay

\* the step called getNextFont exactly once
FontAdvanced ==
  /\ currentFontIndex' = NextFontIndex(currentFontIndex, previousFontIndex, Len(fonts))
  /\ previousFontIndex' = currentFontIndex'
  /\ currentFont' = FontAt(fonts, currentFontIndex')

\* C13 (as claimed): in src/unnamed/part_000 an execution of updateCountdown
\* after the first calls getNextFont, exactly once, if and only if it leaves
\* in some field a value other than the one the previous execution left; an
\* execution that changes no field leaves currentFontIndex, previousFontIndex
\* and currentFont unchanged.
C13_FontAdvance ==
  [][(variant = "part_000" /\ lastOp' = "drawSample") =>
       IF \E f \in Fields : FieldValue(f)' # FieldValue(f)
       THEN FontAdvanced
       ELSE UNCHANGED <<currentFontIndex, previousFontIndex, currentFont>>]_vars

NoPulse == \A f \in Fields : ~ animatingElements[f]

\* C14: when time passes and due callbacks run, a flag of animatingElements
\* that is true is later false, for each field; and once an execution of
\* updateCountdown has found the countdown complete, from some point on all
\* four flags are false for ever.
C14_PulsesEnd ==
  /\ \A f \in Fields : animatingElements[f] ~> ~ animatingElements[f]
  /\ completed ~> [] NoPulse

\* C14 witness: after the countdown completed, the callback of the last
\* pending timer has run and no flag is left true.
C14_Witness ==
  completed /\ lastOp = "timer" /\ timers = {} /\ NoPulse /\ calls >= 2

C16_NeverNegative ==
  /\ days >= 0 /\ hours >= 0 /\ minutes >= 0 /\ seconds >= 0
  /\ (lastOp \in SampleOps /\ NonPositive(Minus(targetDate, wall))) =>
       (returned = TRUE /\ AllZero)
  /\ (lastOp \in SampleOps /\ ~ NonPositive(Minus(targetDate, wall))) =>
       returned = FALSE

\* C16 witness: the clock was set forward past the target from more than a
\* day before it, then set back: an execution has found the countdown
\* complete, and the latest one found over a day left.
C16_Witness ==
  /\ lastOp = "drawSample" /\ completed
  /\ returned = FALSE /\ days >= 1 /\ seconds >= 1

\* C17 (as claimed): right after every execution of updateCountdown, one that
\* found the countdown complete included, prevDays = days, prevHours = hours,
\* prevMinutes = minutes and prevSeconds = seconds.
C17_PrevUpdated ==
  lastOp \in SampleOps =>
    /\ prevDays = days /\ prevHours = hours
    /\ prevMinutes = minutes /\ prevSeconds = seconds

\* C18: for every list of 2 to 14 fonts, after a call of getNextFont
\* previousFontIndex = currentFontIndex; in no reachable state is the index
\* after the current one equal to previousFontIndex, so the skip step is
\* never taken; every call moves currentFontIndex to the next index modulo
\* the length and selects the font at it; and the latest Len(fonts)
\* selections are the indices in list order, each exactly once.
C18_PlainRotation ==
  /\ [](lastOp = "getNextFont" => previousFontIndex = currentFontIndex)
  /\ []((currentFontIndex + 1) % Len(fonts) # previousFontIndex)
  /\ [][lastOp' = "getNextFont" =>
          /\ currentFontIndex' = (currentFontIndex + 1) % Len(fonts)
          /\ currentFont' = fonts[currentFontIndex' + 1]]_vars
  /\ [](Len(recentFonts) = Len(fonts) =>
          /\ \A i \in 1 .. Len(fonts) - 1 :
               recentFonts[i + 1] = (recentFonts[i] + 1) % Len(fonts)
          /\ \A k \in 0 .. Len(fonts) - 1 :
               Cardinality({i \in 1 .. Len(fonts) : recentFonts[i] = k}) = 1)

\* C18 witness: with the 14 fonts of the source, 14 consecutive selections
\* that began in the middle of the list and wrapped around.
C18_Witness ==
  /\ lastOp = "getNextFont" /\ Len(fonts) = 14 /\ Len(recentFonts) = 14
  /\ recentFonts[1] = 5 /\ recentFonts[14] = 4 /\ currentFontIndex = 4

====
